---- MODULE Spec2Model ----
(***************************************************************************)
(* A model of app.py, the Streamlit "Agentic AI Framework Recommender".    *)
(*                                                                         *)
(* One render pass of main() is a walk of pc from "start" to "done",       *)
(* "stopped" (st.stop) or "fault" (an exception nobody catches); Streamlit *)
(* reruns the script on the next interaction (Rerun).  The text a remote   *)
(* completion call returns is a sequence of tokens: "{" and "}" are the    *)
(* brace characters, "p" is a run of prose without braces, and a member    *)
(* token such as "is_valid:true" is one `"key": value` pair of a JSON      *)
(* object (separators included).  A JSON value is a record [t, v] of its   *)
(* type and its content, and a dict maps every key the program reads to    *)
(* its value or to Absent.                                                 *)
(***************************************************************************)
EXTENDS Integers, Sequences, FiniteSets, TLC

VARIABLES
    pc,                 \* position of main() in the render pass
    env_key,            \* os.environ's GEMINI_API_KEY
    secret_key,         \* what st.secrets["GEMINI_API_KEY"] did, once read
    session_exp,        \* st.session_state.coding_experience
    task_description,   \* value of the text area in this pass
    coding_experience,  \* value of the radio in this pass
    validation,         \* main()'s local `validation`
    recommendation,     \* main()'s local `recommendation`
    calls,              \* the generate_content calls of this pass, in order
    sent_prompt,        \* the prompt handed to the generator's generate_content
    ui,                 \* the elements rendered in this pass
    overview,           \* the profiles rendered by display_framework_overview
    framework_info,     \* the module-level dict FRAMEWORK_INFO
    response            \* the outcome of the remote call under study (SpecExtract)

vars == <<pc, env_key, secret_key, session_exp, task_description,
          coding_experience, validation, recommendation, calls, sent_prompt,
          ui, overview, framework_info, response>>

----------------------------------------------------------------------------
(* Bounds *)

\* longest reply text, in tokens, of a remote call inside a render pass
MaxReplyLen == 4

\* longest reply text, in tokens, handed to the two functions on their own
MaxTextLen == 5

----------------------------------------------------------------------------
(* JSON values and dicts *)

Absent == [t |-> "absent", v |-> <<>>]
JTrue == [t |-> "bool", v |-> <<"true">>]
JFalse == [t |-> "bool", v |-> <<"false">>]
JStr(s) == [t |-> "str", v |-> s]
JNum(n) == [t |-> "num", v |-> <<n>>]
JList(s) == [t |-> "list", v |-> s]

Keys ==
    {"is_valid", "confidence", "reason",
     "recommended_framework", "confidence_score", "reasoning",
     "alternative_options", "implementation_tips", "potential_challenges"}

EmptyDict == [k \in Keys |-> Absent]

\* Python's truth value of a JSON value
Truthy(val) ==
    CASE val.t = "bool" -> val.v = <<"true">>
      [] val.t = "num" -> val.v \notin {<<"0">>, <<"0.0">>}
      [] val.t = "str" -> val.v # <<>>
      [] val.t = "list" -> val.v # <<>>
      [] OTHER -> FALSE

\* Python's truth value of a dict, or of None
DictTruthy(d) == \E k \in Keys : d[k] # Absent

----------------------------------------------------------------------------
(* Reply texts *)

LBrace == "{"
RBrace == "}"
Prose == "p"

MemberTokens ==
    {"is_valid:true", "is_valid:false", "is_valid:str", "reason:str",
     "recommended_framework:n8n", "recommended_framework:other",
     "confidence_score:num", "confidence_score:str", "reasoning:str",
     "alternative_options:list", "alternative_options:num"}

MemberKey(tok) ==
    CASE tok \in {"is_valid:true", "is_valid:false", "is_valid:str"} -> "is_valid"
      [] tok = "reason:str" -> "reason"
      [] tok \in {"recommended_framework:n8n", "recommended_framework:other"}
            -> "recommended_framework"
      [] tok \in {"confidence_score:num", "confidence_score:str"} -> "confidence_score"
      [] tok = "reasoning:str" -> "reasoning"
      [] tok \in {"alternative_options:list", "alternative_options:num"}
            -> "alternative_options"

MemberVal(tok) ==
    CASE tok = "is_valid:true" -> JTrue
      [] tok = "is_valid:false" -> JFalse
      [] tok = "is_valid:str" -> JStr(<<"no">>)
      [] tok = "reason:str" -> JStr(<<"not an AI automation task">>)
      [] tok = "recommended_framework:n8n" -> JStr(<<"n8n">>)
      [] tok = "recommended_framework:other" -> JStr(<<"Zapier">>)
      [] tok = "confidence_score:num" -> JNum("0.85")
      [] tok = "confidence_score:str" -> JStr(<<"high">>)
      [] tok = "reasoning:str" -> JStr(<<"fits the task">>)
      [] tok = "alternative_options:list" -> JList(<<"CrewAI">>)
      [] tok = "alternative_options:num" -> JNum("2")

\* all texts of at most n tokens over an alphabet
TextsUpTo(alphabet, n) == UNION {[1..k -> alphabet] : k \in 0..n}

\* the keys validate_agentic_ai_task's caller reads
ValidatorAlphabet ==
    {LBrace, RBrace, Prose, "is_valid:true", "is_valid:false", "is_valid:str",
     "reason:str"}

\* the keys get_gemini_recommendation's caller reads
GeneratorAlphabet ==
    {LBrace, RBrace, Prose, "recommended_framework:n8n",
     "recommended_framework:other", "reasoning:str", "confidence_score:str",
     "alternative_options:num"}

ExtractAlphabet ==
    {LBrace, RBrace, Prose, "is_valid:true", "reason:str",
     "recommended_framework:n8n"}

\* a remote call either raises or returns a text
Raised == [raised |-> TRUE, text |-> <<>>]
Returned(text) == [raised |-> FALSE, text |-> text]
Outcomes(texts) == {Raised} \cup {Returned(t) : t \in texts}

NoResponse == Raised

----------------------------------------------------------------------------
(* str.find, str.rfind, slicing and json.loads *)

\* str.find: the 0-based index of the first c, or -1
Find(s, c) ==
    IF \E i \in 1..Len(s) : s[i] = c
    THEN (CHOOSE i \in 1..Len(s) : s[i] = c /\ \A j \in 1..(i - 1) : s[j] # c) - 1
    ELSE -1

\* str.rfind: the 0-based index of the last c, or -1
RFind(s, c) ==
    IF \E i \in 1..Len(s) : s[i] = c
    THEN (CHOOSE i \in 1..Len(s) : s[i] = c /\ \A j \in (i + 1)..Len(s) : s[j] # c) - 1
    ELSE -1

\* s[a:b] for 0 <= a and 0 <= b
Slice(s, a, b) ==
    LET hi == IF b < Len(s) THEN b ELSE Len(s)
    IN  IF a < hi THEN [i \in 1..(hi - a) |-> s[a + i]] ELSE <<>>

RECURSIVE Members(_)
\* the dict of a sequence of members; a repeated key keeps its last value
Members(s) ==
    IF s = <<>> THEN EmptyDict
    ELSE LET last == s[Len(s)]
         IN  [Members(SubSeq(s, 1, Len(s) - 1)) EXCEPT ![MemberKey(last)] = MemberVal(last)]

\* json.loads: a text parses iff it is "{", members, "}"
json_loads(s) ==
    IF /\ Len(s) >= 2
       /\ s[1] = LBrace
       /\ s[Len(s)] = RBrace
       /\ \A i \in 2..(Len(s) - 1) : s[i] \in MemberTokens
    THEN [ok |-> TRUE, d |-> Members(SubSeq(s, 2, Len(s) - 1))]
    ELSE [ok |-> FALSE, d |-> EmptyDict]

----------------------------------------------------------------------------
(* FRAMEWORK_INFO *)

FRAMEWORK_INFO ==
    [name \in {"n8n", "LangGraph", "CrewAI", "AutoGen"} |->
        CASE name = "n8n" ->
               [description |-> "A visual workflow automation tool with AI capabilities",
                strengths |-> <<"Visual workflow builder", "No-code/low-code",
                                "Extensive integrations", "Easy to use">>,
                best_for |-> <<"Workflow automation", "Data integration",
                               "Business process automation", "Non-technical users">>]
          [] name = "LangGraph" ->
               [description |-> "A library for building stateful, multi-actor applications with LLMs",
                strengths |-> <<"Stateful workflows", "Complex reasoning chains",
                                "Graph-based architecture", "LangChain integration">>,
                best_for |-> <<"Complex reasoning tasks", "Multi-step workflows",
                               "State management", "Research applications">>]
          [] name = "CrewAI" ->
               [description |-> "A framework for orchestrating role-playing, autonomous AI agents",
                strengths |-> <<"Role-based agents", "Collaborative workflows",
                                "Task delegation", "Hierarchical structures">>,
                best_for |-> <<"Team collaboration simulation", "Multi-agent systems",
                               "Role-specific tasks", "Creative projects">>]
          [] name = "AutoGen" ->
               [description |-> "Microsoft's framework for multi-agent conversation systems",
                strengths |-> <<"Conversational AI", "Multi-agent chat",
                                "Code generation", "Human-in-the-loop">>,
                best_for |-> <<"Conversational workflows", "Code generation",
                               "Problem-solving discussions", "Interactive agents">>]]

\* the insertion order of FRAMEWORK_INFO's keys, which .items() follows
FrameworkOrder == <<"n8n", "LangGraph", "CrewAI", "AutoGen">>

----------------------------------------------------------------------------
(* init_gemini_api *)

EnvValues == {"unset", "empty", "key"}

\* st.secrets["GEMINI_API_KEY"]: KeyError or FileNotFoundError ("missing"), an
\* empty string, a key, or any other exception ("error")
SecretValues == {"missing", "empty", "key", "error"}

\* init_gemini_api without the `if not api_key: ... return False` block
init_gemini_api_unchecked(env, secret, configure_ok) ==
    IF env # "key" /\ secret = "error"
    THEN [ok |-> FALSE, shown |-> {"error:init_failed"}]
    ELSE IF configure_ok
         THEN [ok |-> TRUE, shown |-> {}]
         ELSE [ok |-> FALSE, shown |-> {"error:init_failed"}]

\* the value of init_gemini_api() and what it renders; the secret is read only
\* when the environment has no key, and configure_ok is whether genai.configure
\* returned
init_gemini_api(env, secret, configure_ok) ==
    IF env # "key" /\ secret = "error"
    THEN [ok |-> FALSE, shown |-> {"error:init_failed"}]
    ELSE LET api_key == IF env = "key" THEN "key"
                        ELSE IF secret = "key" THEN "key" ELSE "none"
         IN  IF api_key = "none"
             THEN [ok |-> FALSE, shown |-> {"error:key_not_found", "info:setup"}]
             ELSE IF configure_ok
                  THEN [ok |-> TRUE, shown |-> {}]
                  ELSE [ok |-> FALSE, shown |-> {"error:init_failed"}]

----------------------------------------------------------------------------
(* validate_agentic_ai_task and get_gemini_recommendation *)

\* response_text.find('{')
start_idx(response_text) == Find(response_text, LBrace)

\* end_idx without the + 1
end_idx_no_increment(response_text) == RFind(response_text, RBrace)

\* response_text.rfind('}') + 1
end_idx(response_text) == RFind(response_text, RBrace) + 1

\* response_text[start_idx:end_idx]
json_str(response_text) ==
    Slice(response_text, start_idx(response_text), end_idx(response_text))

\* the dict of the `else` branch of validate_agentic_ai_task
UnableToValidate ==
    [EmptyDict EXCEPT !["is_valid"] = JFalse,
                      !["confidence"] = JNum("0.0"),
                      !["reason"] = JStr(<<"Unable to validate input">>)]

\* the dict of the `except` branch of validate_agentic_ai_task
ValidationError ==
    [EmptyDict EXCEPT !["is_valid"] = JFalse,
                      !["confidence"] = JNum("0.0"),
                      !["reason"] = JStr(<<"Validation error: ", "exception text">>)]

\* validate_agentic_ai_task returning whatever json.loads left, parsed or not
validate_agentic_ai_task_unguarded(outcome) ==
    IF outcome.raised
    THEN ValidationError
    ELSE LET response_text == outcome.text
         IN  IF start_idx(response_text) # -1 /\ end_idx(response_text) # -1
             THEN json_loads(json_str(response_text)).d
             ELSE UnableToValidate

\* validate_agentic_ai_task, given what generate_content did
validate_agentic_ai_task(outcome) ==
    IF outcome.raised
    THEN ValidationError
    ELSE LET response_text == outcome.text
         IN  IF start_idx(response_text) # -1 /\ end_idx(response_text) # -1
             THEN LET parsed == json_loads(json_str(response_text))
                  IN  IF parsed.ok THEN parsed.d ELSE ValidationError
             ELSE UnableToValidate

\* the dict of the `else` branch of get_gemini_recommendation
UnableToParse(response_text) ==
    [EmptyDict EXCEPT !["recommended_framework"] = JStr(<<"Unable to parse">>),
                      !["reasoning"] = JStr(response_text),
                      !["confidence_score"] = JNum("0.0"),
                      !["alternative_options"] = JList(<<>>),
                      !["implementation_tips"] = JList(<<>>),
                      !["potential_challenges"] = JList(<<>>)]

\* Python's None, as get_gemini_recommendation returns it
None == [none |-> TRUE, d |-> EmptyDict]
Some(d) == [none |-> FALSE, d |-> d]

\* get_gemini_recommendation whose `except` branch returns the fallback record
get_gemini_recommendation_except_fallback(outcome) ==
    IF outcome.raised
    THEN Some(UnableToParse(<<>>))
    ELSE LET response_text == outcome.text
         IN  IF start_idx(response_text) # -1 /\ end_idx(response_text) # -1
             THEN LET parsed == json_loads(json_str(response_text))
                  IN  IF parsed.ok THEN Some(parsed.d) ELSE None
             ELSE Some(UnableToParse(response_text))

\* get_gemini_recommendation, given what generate_content did; the `except`
\* branch renders st.error and returns None
get_gemini_recommendation(outcome) ==
    IF outcome.raised
    THEN None
    ELSE LET response_text == outcome.text
         IN  IF start_idx(response_text) # -1 /\ end_idx(response_text) # -1
             THEN LET parsed == json_loads(json_str(response_text))
                  IN  IF parsed.ok THEN Some(parsed.d) ELSE None
             ELSE Some(UnableToParse(response_text))

\* create_recommendation_prompt without the line that favors n8n
create_recommendation_prompt_no_bias(task, experience) ==
    [intro |-> "You are an expert in agentic AI frameworks.",
     task_description |-> task,
     coding_experience |-> experience,
     options |-> FrameworkOrder,
     important |-> <<"If coding experience is Yes: Consider all frameworks based on the specific requirements">>,
     format |-> <<"recommended_framework", "confidence_score", "reasoning",
                  "alternative_options", "implementation_tips", "potential_challenges">>]

\* create_recommendation_prompt: the f-string, by its parts
create_recommendation_prompt(task, experience) ==
    [intro |-> "You are an expert in agentic AI frameworks.",
     task_description |-> task,
     coding_experience |-> experience,
     options |-> FrameworkOrder,
     important |-> <<"If coding experience is No: Strongly favor n8n for its visual, no-code approach",
                     "If coding experience is Yes: Consider all frameworks based on the specific requirements">>,
     format |-> <<"recommended_framework", "confidence_score", "reasoning",
                  "alternative_options", "implementation_tips", "potential_challenges">>]

NoPrompt ==
    [intro |-> "", task_description |-> <<>>, coding_experience |-> "",
     options |-> <<>>, important |-> <<>>, format |-> <<>>]

\* the argument of model.generate_content in get_gemini_recommendation
generator_prompt(task, experience) == create_recommendation_prompt(task, experience)

----------------------------------------------------------------------------
(* display_framework_overview and the recommendation panel of main() *)

\* display_framework_overview that stops one item short
display_framework_overview_short(info) ==
    [i \in 1..(Len(FrameworkOrder) - 1) |->
        [name |-> FrameworkOrder[i],
         description |-> info[FrameworkOrder[i]].description,
         strengths |-> info[FrameworkOrder[i]].strengths,
         best_for |-> info[FrameworkOrder[i]].best_for]]

\* display_framework_overview: one expander per item of FRAMEWORK_INFO, in order
display_framework_overview(info) ==
    [i \in 1..Len(FrameworkOrder) |->
        [name |-> FrameworkOrder[i],
         description |-> info[FrameworkOrder[i]].description,
         strengths |-> info[FrameworkOrder[i]].strengths,
         best_for |-> info[FrameworkOrder[i]].best_for]]

ListKeys == <<"alternative_options", "implementation_tips", "potential_challenges">>

RECURSIVE ShowLists(_, _, _)
\* the three `if recommendation.get(k): for x in recommendation[k]` blocks from
\* the i-th on: a truthy value that is no list and no string cannot be iterated
ShowLists(d, i, shown) ==
    IF i > Len(ListKeys) THEN [fault |-> FALSE, shown |-> shown]
    ELSE LET val == d[ListKeys[i]]
         IN  IF val = Absent \/ ~Truthy(val)
             THEN ShowLists(d, i + 1, shown)
             ELSE IF val.t \in {"list", "str"}
                  THEN ShowLists(d, i + 1, shown \cup {ListKeys[i]})
                  ELSE [fault |-> TRUE, shown |-> shown \cup {ListKeys[i]}]

\* the `with col2:` block: the details of a framework FRAMEWORK_INFO knows
ShowDetails(d, info, shown) ==
    LET rec_framework == d["recommended_framework"]
    IN  IF rec_framework.t \notin {"str", "num", "bool"}
        THEN [fault |-> TRUE, shown |-> shown]
        ELSE IF /\ rec_framework.t = "str"
                /\ Len(rec_framework.v) = 1
                /\ rec_framework.v[1] \in DOMAIN info
             THEN [fault |-> FALSE, shown |-> shown \cup {"framework_details"}]
             ELSE [fault |-> FALSE, shown |-> shown]

\* the `if recommendation:` block of main(): what it renders, and whether an
\* exception leaves it (KeyError on a missing key, ValueError or TypeError on
\* a confidence_score that is no number, TypeError on a value not iterable)
show_recommendation(rec, info) ==
    IF rec.none \/ ~DictTruthy(rec.d)
    THEN [fault |-> FALSE, shown |-> {}]
    ELSE LET d == rec.d
             confidence == IF d["confidence_score"] = Absent
                           THEN JNum("0") ELSE d["confidence_score"]
         IN  IF d["recommended_framework"] = Absent
             THEN [fault |-> TRUE, shown |-> {"success:generated"}]
             ELSE IF confidence.t \notin {"num", "bool"}
             THEN [fault |-> TRUE,
                   shown |-> {"success:generated", "header:recommended_framework"}]
             ELSE IF d["reasoning"] = Absent
             THEN [fault |-> TRUE,
                   shown |-> {"success:generated", "header:recommended_framework",
                              "metric:confidence"}]
             ELSE LET lists == ShowLists(d, 1,
                                   {"success:generated", "header:recommended_framework",
                                    "metric:confidence", "write:reasoning"})
                  IN  IF lists.fault THEN lists
                      ELSE ShowDetails(d, info, lists.shown)

\* the `if validation["is_valid"]: ... else: ...` of main(), up to the call of
\* get_gemini_recommendation: where main() goes and what it renders
check_validation(v) ==
    IF v["is_valid"] = Absent
    THEN [next |-> "fault", shown |-> {}]
    ELSE IF Truthy(v["is_valid"])
    THEN [next |-> "recommend", shown |-> {}]
    ELSE IF v["reason"] = Absent
    THEN [next |-> "fault", shown |-> {"error:invalid_request"}]
    ELSE [next |-> "tab2",
          shown |-> {"error:invalid_request", "warning:reason",
                     "expander:valid_request_help", "info:suggestion"}]

----------------------------------------------------------------------------
(* The widgets *)

TaskDescriptions == {<<>>, <<" ">>, <<" ", "a", " ">>}

RECURSIVE LStrip(_)
LStrip(s) == IF s # <<>> /\ Head(s) = " " THEN LStrip(Tail(s)) ELSE s

RECURSIVE RStrip(_)
RStrip(s) ==
    IF s # <<>> /\ s[Len(s)] = " " THEN RStrip(SubSeq(s, 1, Len(s) - 1)) ELSE s

\* str.strip
Strip(s) == RStrip(LStrip(s))

ExperienceValues == {"Yes", "No"}

----------------------------------------------------------------------------
(* The render pass *)

PassStart ==
    /\ pc = "start"
    /\ secret_key = "unread"
    /\ task_description = <<>>
    /\ coding_experience = "Yes"
    /\ validation = EmptyDict
    /\ recommendation = None
    /\ calls = <<>>
    /\ sent_prompt = NoPrompt
    /\ ui = {}
    /\ overview = <<>>

Init ==
    /\ PassStart
    /\ env_key \in EnvValues
    /\ session_exp = "unset"
    /\ framework_info = FRAMEWORK_INFO
    /\ response = NoResponse

\* main(), lines 274-279: the title, init_gemini_api() and st.stop()
InitGeminiApi ==
    /\ pc = "start"
    /\ \E secret \in SecretValues, configure_ok \in BOOLEAN :
          LET read == IF env_key = "key" THEN "unread" ELSE secret
              r == init_gemini_api(env_key, read, configure_ok)
          IN  /\ secret_key' = read
              /\ IF r.ok
                 THEN /\ pc' = "tab1"
                      /\ ui' = ui \cup {"title"} \cup r.shown
                 ELSE /\ pc' = "stopped"
                      /\ ui' = ui \cup {"title", "error:ensure_key"} \cup r.shown
    /\ UNCHANGED <<env_key, session_exp, task_description, coding_experience,
                   validation, recommendation, calls, sent_prompt, overview,
                   framework_info, response>>

\* main(), lines 284-314 and 404-405: the widgets of tab 1 and the button
Tab1Widgets ==
    /\ pc = "tab1"
    /\ \E text \in TaskDescriptions, radio \in ExperienceValues, clicked \in BOOLEAN :
          /\ task_description' = text
          /\ coding_experience' = radio
          /\ session_exp' = radio
          /\ IF ~clicked
             THEN pc' = "tab2" /\ ui' = ui
             ELSE IF Strip(text) # <<>>
                  THEN pc' = "validate" /\ ui' = ui
                  ELSE pc' = "tab2" /\ ui' = ui \cup {"warning:describe_first"}
    /\ UNCHANGED <<env_key, secret_key, validation, recommendation, calls,
                   sent_prompt, overview, framework_info, response>>

\* validation = validate_agentic_ai_task(task_description)
CallValidator(outcome) ==
    /\ validation' = validate_agentic_ai_task(outcome)
    /\ calls' = Append(calls, "validator")

\* recommendation = get_gemini_recommendation(task_description, session coding experience)
CallGenerator(outcome) ==
    /\ recommendation' = get_gemini_recommendation(outcome)
    /\ sent_prompt' = generator_prompt(task_description, session_exp)
    /\ calls' = Append(calls, "generator")
    /\ ui' = IF recommendation'.none
             THEN ui \cup {"error:getting_recommendation"} ELSE ui

\* main(), lines 315-317
Validate ==
    /\ pc = "validate"
    /\ \E outcome \in Outcomes(TextsUpTo(ValidatorAlphabet, MaxReplyLen)) :
          CallValidator(outcome)
    /\ pc' = "validated"
    /\ UNCHANGED <<env_key, secret_key, session_exp, task_description,
                   coding_experience, recommendation, sent_prompt, ui, overview,
                   framework_info, response>>

\* main(), lines 319 and 368-402
CheckValidation ==
    /\ pc = "validated"
    /\ pc' = check_validation(validation).next
    /\ ui' = ui \cup check_validation(validation).shown
    /\ UNCHANGED <<env_key, secret_key, session_exp, task_description,
                   coding_experience, validation, recommendation, calls,
                   sent_prompt, overview, framework_info, response>>

\* main(), lines 320-321
Recommend ==
    /\ pc = "recommend"
    /\ \E outcome \in Outcomes(TextsUpTo(GeneratorAlphabet, MaxReplyLen)) :
          CallGenerator(outcome)
    /\ pc' = "render"
    /\ UNCHANGED <<env_key, secret_key, session_exp, task_description,
                   coding_experience, validation, overview, framework_info,
                   response>>

\* main(), lines 323-367
ShowRecommendation ==
    /\ pc = "render"
    /\ LET r == show_recommendation(recommendation, framework_info)
       IN  /\ pc' = IF r.fault THEN "fault" ELSE "tab2"
           /\ ui' = ui \cup r.shown
    /\ UNCHANGED <<env_key, secret_key, session_exp, task_description,
                   coding_experience, validation, recommendation, calls,
                   sent_prompt, overview, framework_info, response>>

\* main(), lines 407-408
Tab2Overview ==
    /\ pc = "tab2"
    /\ overview' = display_framework_overview(framework_info)
    /\ pc' = "done"
    /\ UNCHANGED <<env_key, secret_key, session_exp, task_description,
                   coding_experience, validation, recommendation, calls,
                   sent_prompt, ui, framework_info, response>>

\* the next interaction: Streamlit runs the script again; only session_state,
\* the environment and the module-level dict outlive the pass
Rerun ==
    /\ pc \in {"done", "stopped", "fault"}
    /\ pc' = "start"
    /\ secret_key' = "unread"
    /\ task_description' = <<>>
    /\ coding_experience' = "Yes"
    /\ validation' = EmptyDict
    /\ recommendation' = None
    /\ calls' = <<>>
    /\ sent_prompt' = NoPrompt
    /\ ui' = {}
    /\ overview' = <<>>
    /\ UNCHANGED <<env_key, session_exp, framework_info, response>>

Next ==
    \/ InitGeminiApi
    \/ Tab1Widgets
    \/ Validate
    \/ CheckValidation
    \/ Recommend
    \/ ShowRecommendation
    \/ Tab2Overview
    \/ Rerun

Spec == Init /\ [][Next]_vars

----------------------------------------------------------------------------
(* The two functions on their own: each is applied once to one outcome of   *)
(* the remote call, drawn from every text of at most MaxTextLen tokens.     *)

ExtractTask == <<"a">>

InitExtract ==
    /\ pc = "x_start"
    /\ env_key = "key"
    /\ secret_key = "unread"
    /\ session_exp \in ExperienceValues
    /\ task_description = ExtractTask
    /\ coding_experience = session_exp
    /\ validation = EmptyDict
    /\ recommendation = None
    /\ calls = <<>>
    /\ sent_prompt = NoPrompt
    /\ ui = {}
    /\ overview = <<>>
    /\ framework_info = FRAMEWORK_INFO
    /\ response \in Outcomes(TextsUpTo(ExtractAlphabet, MaxTextLen))

XValidate ==
    /\ pc = "x_start"
    /\ CallValidator(response)
    /\ pc' = "x_validated"
    /\ UNCHANGED <<env_key, secret_key, session_exp, task_description,
                   coding_experience, recommendation, sent_prompt, ui, overview,
                   framework_info, response>>

XRecommend ==
    /\ pc = "x_validated"
    /\ CallGenerator(response)
    /\ pc' = "x_recommended"
    /\ UNCHANGED <<env_key, secret_key, session_exp, task_description,
                   coding_experience, validation, overview, framework_info,
                   response>>

\* the `if recommendation:` block of main() on that result
XShow ==
    /\ pc = "x_recommended"
    /\ LET r == show_recommendation(recommendation, framework_info)
       IN  /\ pc' = IF r.fault THEN "x_fault" ELSE "x_done"
           /\ ui' = ui \cup r.shown
    /\ UNCHANGED <<env_key, secret_key, session_exp, task_description,
                   coding_experience, validation, recommendation, calls,
                   sent_prompt, overview, framework_info, response>>

NextExtract == XValidate \/ XRecommend \/ XShow

SpecExtract == InitExtract /\ [][NextExtract]_vars

----------------------------------------------------------------------------
(* Properties *)

Range(s) == {s[i] : i \in 1..Len(s)}

Count(s, x) == Cardinality({i \in 1..Len(s) : s[i] = x})

\* a key was found in the environment or in the secrets
KeyFound == env_key = "key" \/ secret_key = "key"

\* C1: a pass that found no API key, in the environment or in the secrets, is
\* halted by st.stop() and has made no remote call.
C1_MissingCredentialHalts ==
    (pc # "start" /\ ~KeyFound) => (pc = "stopped" /\ calls = <<>>)

C1_Witness ==
    /\ pc = "stopped"
    /\ env_key = "unset"
    /\ secret_key = "missing"
    /\ "error:key_not_found" \in ui

\* C2: the generator is called only after the validator returned is_valid =
\* true, and when the validator returned is_valid = false the generator is not
\* called and the rejection reason is shown.
C2_GeneratorOnlyAfterValid ==
    /\ "generator" \in Range(calls) =>
          (calls = <<"validator", "generator">> /\ validation["is_valid"] = JTrue)
    /\ (pc \in {"tab2", "done", "fault"} /\ validation["is_valid"] = JFalse) =>
          ("generator" \notin Range(calls) /\ "warning:reason" \in ui)

\* the reply has a "{" and the text from the first "{" to the last "}" parses
ParsesOK(text) ==
    /\ Find(text, LBrace) # -1
    /\ json_loads(Slice(text, Find(text, LBrace), RFind(text, RBrace) + 1)).ok

\* C3: when the remote call raises, or its reply has no braces, or the text
\* between the braces does not parse, validate_agentic_ai_task returns
\* is_valid = false, confidence = 0.0 and a non-empty reason, after exactly
\* one remote call.
C3_ValidatorDegrades ==
    pc # "x_start" =>
        /\ Count(calls, "validator") = 1
        /\ (response.raised \/ ~ParsesOK(response.text)) =>
              /\ validation["is_valid"] = JFalse
              /\ validation["confidence"] = JNum("0.0")
              /\ validation["reason"].t = "str"
              /\ validation["reason"].v # <<>>

C3_Witness ==
    /\ pc = "x_validated"
    /\ ~response.raised
    /\ Find(response.text, LBrace) # -1
    /\ ~ParsesOK(response.text)
    /\ validation = ValidationError
    /\ calls = <<"validator">>

\* C4: for a reply that was returned and does not parse,
\* get_gemini_recommendation returns the record with recommended_framework =
\* "Unable to parse" and the reply text as reasoning.
C4_ParseFailureGivesFallback ==
    (pc \in {"x_recommended", "x_done", "x_fault"}
        /\ ~response.raised /\ ~ParsesOK(response.text)) =>
            recommendation = Some(UnableToParse(response.text))

PanelElements ==
    {"success:generated", "header:recommended_framework", "metric:confidence",
     "write:reasoning", "alternative_options", "implementation_tips",
     "potential_challenges", "framework_details"}

\* C5: when the generator's remote call raises, get_gemini_recommendation
\* shows an error and returns None, which is no fallback record; main() then
\* renders nothing of the recommendation panel and raises nothing.
C5_RemoteFailureGivesNone ==
    (pc \in {"x_recommended", "x_done", "x_fault"} /\ response.raised) =>
        /\ recommendation.none
        /\ recommendation # Some(UnableToParse(response.text))
        /\ "error:getting_recommendation" \in ui
        /\ pc # "x_fault"
        /\ ui \cap PanelElements = {}

C5_Witness ==
    /\ pc = "x_done"
    /\ response.raised
    /\ recommendation = None
    /\ ui = {"error:getting_recommendation"}

\* text[i..j] is a JSON object
ObjectAt(text, i, j) == json_loads(SubSeq(text, i, j)).ok

NoBraceIn(s) == \A k \in 1..Len(s) : s[k] \notin {LBrace, RBrace}

\* both functions returned the object that text[i..j] is
BothYield(text, i, j) ==
    /\ validation = json_loads(SubSeq(text, i, j)).d
    /\ recommendation = Some(json_loads(SubSeq(text, i, j)).d)

NoBracePair(text) ==
    ~\E i \in 1..Len(text), j \in 1..Len(text) :
        i < j /\ text[i] = LBrace /\ text[j] = RBrace

\* C7: for a reply without a "{" ... "}" pair the validator returns its
\* default invalid result and the generator returns the "Unable to parse"
\* record with its three lists empty.
C7_NoPairGivesFallback ==
    (pc \in {"x_recommended", "x_done", "x_fault"}
        /\ ~response.raised /\ NoBracePair(response.text)) =>
            /\ validation["is_valid"] = JFalse
            /\ validation["confidence"] = JNum("0.0")
            /\ recommendation = Some(UnableToParse(response.text))
            /\ recommendation.d["alternative_options"] = JList(<<>>)
            /\ recommendation.d["implementation_tips"] = JList(<<>>)
            /\ recommendation.d["potential_challenges"] = JList(<<>>)

\* C8: whatever the two remote calls reply, no exception leaves the render
\* pass.
C8_NoUnhandledFault == pc # "fault"

NoCodeBias ==
    "If coding experience is No: Strongly favor n8n for its visual, no-code approach"

\* C9: the prompt handed to the generator's remote call is the one
\* create_recommendation_prompt builds from the task description and the
\* selected experience, and for experience "No" it holds the line that favors
\* n8n, the task description and the value "No".
C9_PromptFavorsNoCode ==
    "generator" \in Range(calls) =>
        /\ sent_prompt = create_recommendation_prompt(task_description, coding_experience)
        /\ coding_experience = "No" =>
              /\ NoCodeBias \in Range(sent_prompt.important)
              /\ sent_prompt.task_description = task_description
              /\ sent_prompt.coding_experience = "No"

C9_Witness ==
    /\ pc = "render"
    /\ calls = <<"validator", "generator">>
    /\ coding_experience = "No"
    /\ Strip(task_description) # <<>>
    /\ NoCodeBias \in Range(sent_prompt.important)

\* the overview shows the four profiles of FRAMEWORK_INFO
OverviewShowsAll ==
    /\ Len(overview) = Cardinality(DOMAIN FRAMEWORK_INFO)
    /\ {overview[i].name : i \in 1..Len(overview)} = DOMAIN FRAMEWORK_INFO
    /\ \A i \in 1..Len(overview) :
          /\ overview[i].description = FRAMEWORK_INFO[overview[i].name].description
          /\ overview[i].strengths = FRAMEWORK_INFO[overview[i].name].strengths
          /\ overview[i].best_for = FRAMEWORK_INFO[overview[i].name].best_for

====
